---- MODULE Spec2Model ----
(***************************************************************************)
(* Model of match_users.ipynb: calculate_compatibility (a weighted count   *)
(* of shared list entries plus a travel-style bonus) and find_matches      *)
(* (locate the user, keep the rows of the other role, drop the disliked    *)
(* ones, score the rest, sort by score).                                   *)
(*                                                                         *)
(* A DataFrame is a sequence of rows.  A list-valued column holds text: a  *)
(* cell is [nan, lit], nan = TRUE for an empty CSV cell (pandas NaN) and   *)
(* lit the entries of the list literal, in order, duplicates included.     *)
(***************************************************************************)
EXTENDS Integers, Sequences, FiniteSets

VARIABLES
    users_df,           \* the DataFrame handed to find_matches
    user_id,            \* the user_id argument of find_matches
    pc,                 \* position in the running call
    current_user,       \* local of find_matches (line 46)
    target_user_type,   \* local of find_matches (line 48)
    potential_matches,  \* local of find_matches (lines 49, 52)
    cursor,             \* rows of potential_matches iterrows() has yielded
    scores,             \* local of find_matches (line 54)
    ret,                \* the list find_matches returned
    exc,                \* the exception the call ended with, "None" if none
    user1, user2,       \* the arguments of a direct calculate_compatibility call
    outcome             \* what that call produced

vars == <<users_df, user_id, pc, current_user, target_user_type,
          potential_matches, cursor, scores, ret, exc, user1, user2, outcome>>

-----------------------------------------------------------------------------
(* Bounds of the explored inputs. *)

\* rows of the DataFrame
NumUsers == 4
\* list entries (an empty cell counts one) over all cells of a DataFrame
MaxDfEntries == 1
\* list entries (an empty cell counts one) over the cells of one user record
MaxEntries == 3

Tags == {"hiking", "food"}
TravelStyles == {"Adventure", "Relaxed"}
UserTypes == {"Traveler", "Guide"}

-----------------------------------------------------------------------------
(* Values *)

RECURSIVE SeqsUpTo(_, _)
SeqsUpTo(S, n) ==
    IF n = 0 THEN {<<>>}
    ELSE LET shorter == SeqsUpTo(S, n - 1)
         IN  shorter \cup {Append(s, x) : s \in {t \in shorter : Len(t) = n - 1}, x \in S}

NaN == [nan |-> TRUE, lit |-> <<>>]
ListCell(s) == [nan |-> FALSE, lit |-> s]
Cells(S, n) == {ListCell(s) : s \in SeqsUpTo(S, n)} \cup (IF n > 0 THEN {NaN} ELSE {})
CellCost(c) == IF c.nan THEN 1 ELSE Len(c.lit)

\* set(list)
ToSet(s) == {s[i] : i \in DOMAIN s}

Return(v) == [exc |-> "None", value |-> v]
Raise(e) == [exc |-> e, value |-> 0]

\* ast.literal_eval of a cell: NaN is no string and no AST node
literal_eval(cell) ==
    IF cell.nan THEN Raise("ValueError") ELSE [exc |-> "None", value |-> cell.lit]

-----------------------------------------------------------------------------
(* calculate_compatibility *)

\* variant: the entries of a that b lacks are counted, not the shared ones
SharedTermDifference(a, b, weight) ==
    Cardinality(ToSet(literal_eval(a).value) \ ToSet(literal_eval(b).value)) * weight

\* variant: the first list is not turned into a set, so its repeats count
SharedTermRepeats(a, b, weight) ==
    Cardinality({i \in DOMAIN literal_eval(a).value :
                    literal_eval(a).value[i] \in ToSet(literal_eval(b).value)}) * weight

\* len(set(literal_eval(a)).intersection(set(literal_eval(b)))) * weight
SharedTerm(a, b, weight) ==
    Cardinality(ToSet(literal_eval(a).value) \cap ToSet(literal_eval(b).value)) * weight

\* variant: user1's travelStyle is compared with itself
StyleTermSameUser(u1, u2) == IF u1.travelStyle = u1.travelStyle THEN 25 ELSE 0

\* if user1['travelStyle'] == user2['travelStyle']: score += 25
StyleTerm(u1, u2) == IF u1.travelStyle = u2.travelStyle THEN 25 ELSE 0

calculate_compatibility(u1, u2) ==
    LET evaluated == <<u1.interests, u2.interests, u1.languages, u2.languages,
                       u1.preferredActivities, u2.preferredActivities,
                       u1.preferredCountries, u2.preferredCountries>>
    IN  IF \E i \in DOMAIN evaluated : literal_eval(evaluated[i]).exc # "None"
        THEN Raise("ValueError")
        ELSE LET s0 == 0
                 s1 == s0 + SharedTerm(u1.interests, u2.interests, 10)
                 s2 == s1 + SharedTerm(u1.languages, u2.languages, 30)
                 s3 == s2 + StyleTerm(u1, u2)
                 s4 == s3 + SharedTerm(u1.preferredActivities, u2.preferredActivities, 10)
                 s5 == s4 + SharedTerm(u1.preferredCountries, u2.preferredCountries, 20)
             IN  Return(s5)

-----------------------------------------------------------------------------
(* Inputs *)

Profile(i, l, t, a, c) ==
    [interests |-> i, languages |-> l, travelStyle |-> t,
     preferredActivities |-> a, preferredCountries |-> c]

ProfileCost(p) ==
    CellCost(p.interests) + CellCost(p.languages)
    + CellCost(p.preferredActivities) + CellCost(p.preferredCountries)

\* the profiles whose cells hold at most n entries, built field by field
Profiles(n) ==
    LET cells == Cells(Tags, n)
        upTo(k) == {c \in cells : CellCost(c) <= k}
    IN  UNION {UNION {UNION {{Profile(i, l, t, a, c) :
                                 t \in TravelStyles,
                                 c \in upTo(n - CellCost(i) - CellCost(l) - CellCost(a))} :
                            a \in upTo(n - CellCost(i) - CellCost(l))} :
                     l \in upTo(n - CellCost(i))} :
              i \in cells}

Row(id, name, type, disliked, p) ==
    [userId |-> id, userName |-> name, userType |-> type,
     interests |-> p.interests, languages |-> p.languages,
     travelStyle |-> p.travelStyle,
     preferredActivities |-> p.preferredActivities,
     preferredCountries |-> p.preferredCountries,
     dislikedUserIds |-> disliked]

NoRow == Row(0, "", "", NaN, Profile(NaN, NaN, "", NaN, NaN))

CalcUsers ==
    {Row(0, "", "Traveler", ListCell(<<>>), p) : p \in Profiles(MaxEntries)}

-----------------------------------------------------------------------------
(* A direct call of calculate_compatibility *)

InitCalc ==
    /\ users_df = <<>>
    /\ user_id = 0
    /\ pc = "calc"
    /\ current_user = NoRow
    /\ target_user_type = ""
    /\ potential_matches = <<>>
    /\ cursor = 0
    /\ scores = <<>>
    /\ ret = <<>>
    /\ exc = "None"
    /\ user1 \in CalcUsers
    /\ user2 \in CalcUsers
    /\ outcome = Return(0)

CallCalculateCompatibility ==
    /\ pc = "calc"
    /\ outcome' = calculate_compatibility(user1, user2)
    /\ pc' = "calc_done"
    /\ UNCHANGED <<users_df, user_id, current_user, target_user_type,
                   potential_matches, cursor, scores, ret, exc, user1, user2>>

NextCalc == CallCalculateCompatibility

SpecCalc == InitCalc /\ [][NextCalc]_vars

-----------------------------------------------------------------------------
(* The DataFrames find_matches is run on *)

NameAt(i) == IF i % 2 = 1 THEN "Mustafa" ELSE "Salma"

\* userId column: all different, or the last two rows sharing one id
IdColumns ==
    {[i \in 1..NumUsers |-> (i % NumUsers) + 1],
     [i \in 1..NumUsers |-> IF i = NumUsers THEN NumUsers ELSE i + 1]}

SetColumns == {"interests", "languages", "preferredActivities", "preferredCountries"}

\* one more entry x written into a cell; "" (or 0 for an id) leaves the cell empty
AddEntry(cell, x, empty) ==
    IF x = empty
    THEN IF cell = ListCell(<<>>) THEN NaN ELSE cell
    ELSE IF cell.nan THEN cell ELSE ListCell(Append(cell.lit, x))

TagPlacements == (1..NumUsers) \X SetColumns \X (Tags \cup {""})
IdPlacements == (1..NumUsers) \X (0..NumUsers)

RECURSIVE PlaceTags(_, _)
PlaceTags(df, es) ==
    IF es = <<>> THEN df
    ELSE LET e == Head(es)
         IN  PlaceTags([df EXCEPT ![e[1]][e[2]] = AddEntry(@, e[3], "")], Tail(es))

RECURSIVE PlaceIds(_, _)
PlaceIds(df, es) ==
    IF es = <<>> THEN df
    ELSE LET e == Head(es)
         IN  PlaceIds([df EXCEPT ![e[1]].dislikedUserIds = AddEntry(@, e[2], 0)], Tail(es))

EmptyList == ListCell(<<>>)

BlankFrame(ids, types, styles) ==
    [i \in 1..NumUsers |->
        Row(ids[i], NameAt(i), types[i], EmptyList,
            Profile(EmptyList, EmptyList, styles[i], EmptyList, EmptyList))]

-----------------------------------------------------------------------------
(* find_matches *)

\* users_df.loc[users_df['userId'] == user_id]
LocateUser(df, uid) == SelectSeq(df, LAMBDA r : r.userId = uid)

\* variant: the branches are swapped, the user's own role is targeted
TargetUserTypeOwn(u) == IF u.userType = "Traveler" THEN "Traveler" ELSE "Guide"

\* 'Guide' if current_user['userType'] == 'Traveler' else 'Traveler'
TargetUserType(u) == IF u.userType = "Traveler" THEN "Guide" ELSE "Traveler"

\* users_df[users_df['userType'] == target_user_type].copy()
SelectUserType(df, t) == SelectSeq(df, LAMBDA r : r.userType = t)

\* variant: the ~ is missing, the disliked rows are the ones kept
KeepDisliked(pm, ids) == SelectSeq(pm, LAMBDA r : r.userId \in ToSet(ids))

\* potential_matches[~potential_matches['userId'].isin(disliked_ids)]
DropDisliked(pm, ids) == SelectSeq(pm, LAMBDA r : r.userId \notin ToSet(ids))

\* variant: an entry goes before the entries of its own score (ties reversed)
RECURSIVE InsertBeforeTies(_, _)
InsertBeforeTies(sorted, e) ==
    IF sorted = <<>> THEN <<e>>
    ELSE IF Head(sorted)[3] > e[3]
         THEN <<Head(sorted)>> \o InsertBeforeTies(Tail(sorted), e)
         ELSE <<e>> \o sorted

\* list.sort(key=lambda x: x[2], reverse=True): stable, equal keys keep their order
RECURSIVE InsertByScore(_, _)
InsertByScore(sorted, e) ==
    IF sorted = <<>> THEN <<e>>
    ELSE IF Head(sorted)[3] >= e[3]
         THEN <<Head(sorted)>> \o InsertByScore(Tail(sorted), e)
         ELSE <<e>> \o sorted

RECURSIVE SortByScore(_)
SortByScore(s) ==
    IF s = <<>> THEN <<>>
    ELSE InsertByScore(SortByScore(SubSeq(s, 1, Len(s) - 1)), s[Len(s)])

Init ==
    /\ \E ids \in IdColumns, types \in [1..NumUsers -> UserTypes],
          styles \in [1..NumUsers -> TravelStyles],
          tags \in SeqsUpTo(TagPlacements, MaxDfEntries),
          dislikes \in SeqsUpTo(IdPlacements, MaxDfEntries) :
            /\ Len(tags) + Len(dislikes) <= MaxDfEntries
            /\ users_df = PlaceIds(PlaceTags(BlankFrame(ids, types, styles), tags), dislikes)
    /\ user_id = 0
    /\ pc = "idle"
    /\ current_user = NoRow
    /\ target_user_type = ""
    /\ potential_matches = <<>>
    /\ cursor = 0
    /\ scores = <<>>
    /\ ret = <<>>
    /\ exc = "None"
    /\ user1 = NoRow
    /\ user2 = NoRow
    /\ outcome = Return(0)

\* the call, and line 46: .iloc[0] of the rows with that userId
Line46 ==
    \E uid \in 1..(NumUsers + 1) :
        /\ pc = "idle"
        /\ user_id' = uid
        /\ IF LocateUser(users_df, uid) = <<>>
           THEN /\ exc' = "IndexError"
                /\ pc' = "raised"
                /\ UNCHANGED current_user
           ELSE /\ current_user' = LocateUser(users_df, uid)[1]
                /\ pc' = "L48"
                /\ UNCHANGED exc
        /\ UNCHANGED <<users_df, target_user_type, potential_matches, cursor,
                       scores, ret, user1, user2, outcome>>

\* variant: no copy, the role filter is applied to users_df itself
Line48_49InPlace ==
    /\ pc = "L48"
    /\ target_user_type' = TargetUserType(current_user)
    /\ potential_matches' = SelectUserType(users_df, TargetUserType(current_user))
    /\ users_df' = SelectUserType(users_df, TargetUserType(current_user))
    /\ pc' = "L51"
    /\ UNCHANGED <<user_id, current_user, cursor, scores, ret, exc,
                   user1, user2, outcome>>

Line48_49 ==
    /\ pc = "L48"
    /\ target_user_type' = TargetUserType(current_user)
    /\ potential_matches' = SelectUserType(users_df, TargetUserType(current_user))
    /\ pc' = "L51"
    /\ UNCHANGED <<users_df, user_id, current_user, cursor, scores, ret, exc,
                   user1, user2, outcome>>

\* variant: the rows that dislike the current user are dropped as well
Line51_54Mutual ==
    /\ pc = "L51"
    /\ LET disliked_ids == literal_eval(current_user.dislikedUserIds)
       IN  IF disliked_ids.exc # "None"
           THEN /\ exc' = disliked_ids.exc
                /\ pc' = "raised"
                /\ UNCHANGED <<potential_matches, scores>>
           ELSE /\ potential_matches' =
                        SelectSeq(DropDisliked(potential_matches, disliked_ids.value),
                                  LAMBDA r : user_id \notin ToSet(r.dislikedUserIds.lit))
                /\ scores' = <<>>
                /\ pc' = "L55"
                /\ UNCHANGED exc
    /\ UNCHANGED <<users_df, user_id, current_user, target_user_type, cursor, ret,
                   user1, user2, outcome>>

Line51_54 ==
    /\ pc = "L51"
    /\ LET disliked_ids == literal_eval(current_user.dislikedUserIds)
       IN  IF disliked_ids.exc # "None"
           THEN /\ exc' = disliked_ids.exc
                /\ pc' = "raised"
                /\ UNCHANGED <<potential_matches, scores>>
           ELSE /\ potential_matches' = DropDisliked(potential_matches, disliked_ids.value)
                /\ scores' = <<>>
                /\ pc' = "L55"
                /\ UNCHANGED exc
    /\ UNCHANGED <<users_df, user_id, current_user, target_user_type, cursor, ret,
                   user1, user2, outcome>>

\* one turn of the loop over potential_matches.iterrows()
Line55_59 ==
    /\ pc = "L55"
    /\ cursor < Len(potential_matches)
    /\ cursor' = cursor + 1
    /\ LET potential_match == potential_matches[cursor + 1]
           score == calculate_compatibility(current_user, potential_match)
       IN  IF potential_match.userId = user_id
           THEN UNCHANGED <<scores, exc, pc>>
           ELSE IF score.exc # "None"
                THEN /\ exc' = score.exc
                     /\ pc' = "raised"
                     /\ UNCHANGED scores
                ELSE /\ scores' = Append(scores, <<potential_match.userName,
                                                   potential_match.userId, score.value>>)
                     /\ UNCHANGED <<exc, pc>>
    /\ UNCHANGED <<users_df, user_id, current_user, target_user_type,
                   potential_matches, ret, user1, user2, outcome>>

Line61_63 ==
    /\ pc = "L55"
    /\ cursor = Len(potential_matches)
    /\ scores' = SortByScore(scores)
    /\ ret' = SortByScore(scores)
    /\ pc' = "returned"
    /\ UNCHANGED <<users_df, user_id, current_user, target_user_type,
                   potential_matches, cursor, exc, user1, user2, outcome>>

Next == Line46 \/ Line48_49 \/ Line51_54 \/ Line55_59 \/ Line61_63

Spec == Init /\ [][Next]_vars

-----------------------------------------------------------------------------
(* The claims' vocabulary, written from their wording *)

\* the distinct elements of a list-valued field (none when the field is missing)
Elements(cell) == {cell.lit[i] : i \in 1..Len(cell.lit)}

Shared(a, b) == Cardinality(Elements(a) \cap Elements(b))

WellFormed(u) ==
    /\ ~u.interests.nan
    /\ ~u.languages.nan
    /\ ~u.preferredActivities.nan
    /\ ~u.preferredCountries.nan

WeightedSum(a, b) ==
    10 * Shared(a.interests, b.interests)
    + 30 * Shared(a.languages, b.languages)
    + (IF a.travelStyle = b.travelStyle THEN 25 ELSE 0)
    + 10 * Shared(a.preferredActivities, b.preferredActivities)
    + 20 * Shared(a.preferredCountries, b.preferredCountries)

UpperBound(u) ==
    10 * Cardinality(Elements(u.interests))
    + 30 * Cardinality(Elements(u.languages))
    + 25
    + 10 * Cardinality(Elements(u.preferredActivities))
    + 20 * Cardinality(Elements(u.preferredCountries))

\* two users sharing exactly 2 interests, 1 language and the travel style, nothing else
SeventyFiveExample ==
    /\ WellFormed(user1)
    /\ WellFormed(user2)
    /\ Shared(user1.interests, user2.interests) = 2
    /\ Shared(user1.languages, user2.languages) = 1
    /\ user1.travelStyle = user2.travelStyle
    /\ Shared(user1.preferredActivities, user2.preferredActivities) = 0
    /\ Shared(user1.preferredCountries, user2.preferredCountries) = 0

CalcDone == pc = "calc_done"

\* C1: on records whose set fields are well formed, calculate_compatibility
\* returns 10*shared interests + 30*shared languages + 25 for an equal
\* travelStyle + 10*shared activities + 20*shared countries; the example of
\* 2 shared interests, 1 shared language and the same travelStyle scores 75.
C1_ScoreIsWeightedSum ==
    (CalcDone /\ WellFormed(user1) /\ WellFormed(user2)) =>
        /\ outcome = Return(WeightedSum(user1, user2))
        /\ SeventyFiveExample => outcome = Return(75)

C1_Witness == CalcDone /\ SeventyFiveExample

\* C5: the score is symmetric: calculate_compatibility(a, b) is
\* calculate_compatibility(b, a), whatever the pair.
C5_Symmetric == CalcDone => outcome = calculate_compatibility(user2, user1)

C5_Witness ==
    /\ CalcDone
    /\ outcome.exc = "None"
    /\ outcome.value > 25
    /\ Elements(user1.interests) # Elements(user2.interests)
    /\ Len(user1.interests.lit) # Len(user2.interests.lit)
    /\ Len(user1.languages.lit) # Len(user2.languages.lit)

\* C6: a returned score s satisfies 0 <= s <= 10*|interests| + 30*|languages|
\* + 25 + 10*|activities| + 20*|countries|, the sizes counting distinct
\* elements, taken from the first user and also taken from the second.
C6_Bounded ==
    (CalcDone /\ outcome.exc = "None") =>
        /\ 0 <= outcome.value
        /\ outcome.value <= UpperBound(user1)
        /\ outcome.value <= UpperBound(user2)

C6_Witness ==
    /\ CalcDone
    /\ outcome.exc = "None"
    /\ outcome.value = UpperBound(user2)
    /\ outcome.value > 25
    /\ Len(user1.interests.lit) > Cardinality(Elements(user1.interests))
    /\ UpperBound(user1) > UpperBound(user2)

\* C7: calculate_compatibility has no error outcome: a set-valued field that
\* is missing or empty on either user contributes 0 and a score is returned.
C7_MissingContributesZero ==
    CalcDone => outcome = Return(WeightedSum(user1, user2))

Returned == pc = "returned"

HasUser == \E k \in DOMAIN users_df : users_df[k].userId = user_id

\* the current user: the first record carrying user_id
CurrentIndex ==
    CHOOSE k \in DOMAIN users_df :
        /\ users_df[k].userId = user_id
        /\ \A j \in 1..(k - 1) : users_df[j].userId # user_id

Current == users_df[CurrentIndex]

Disliked == Elements(Current.dislikedUserIds)

\* the record at position k made the entry e
MadeBy(k, e) == users_df[k].userName = e[1] /\ users_df[k].userId = e[2]

\* the records the claims call eligible: the other role, not disliked, not the user
Eligible(k) ==
    /\ users_df[k].userType # Current.userType
    /\ users_df[k].userId \notin Disliked
    /\ users_df[k].userId # user_id

\* C2: the result holds no user the current user dislikes, no user of the
\* current user's own userType, and not the current user.
C2_NoExcludedUser ==
    Returned =>
        \A i \in DOMAIN ret :
            /\ ret[i][2] \notin Disliked
            /\ ret[i][2] # user_id
            /\ \E k \in DOMAIN users_df :
                    /\ MadeBy(k, ret[i])
                    /\ k # CurrentIndex
                    /\ users_df[k].userType # Current.userType

\* a disliked record of the other role and a second record carrying user_id
\* (skipped at line 56) are in the collection, and someone is returned
C2_Witness ==
    /\ Returned
    /\ Len(ret) >= 1
    /\ user_id \notin Disliked
    /\ \E k \in DOMAIN users_df :
            /\ users_df[k].userType # Current.userType
            /\ users_df[k].userId \in Disliked
    /\ \E k \in DOMAIN users_df :
            /\ k # CurrentIndex
            /\ users_df[k].userId = user_id
            /\ users_df[k].userType # Current.userType

\* C3: the result is ordered by non-increasing score, and entries of equal
\* score stand in the order of their records in the input collection.
C3_SortedStable ==
    Returned =>
        \A i, j \in DOMAIN ret :
            i < j =>
                /\ ret[i][3] >= ret[j][3]
                /\ ret[i][3] = ret[j][3] =>
                        \E k, l \in DOMAIN users_df :
                            k < l /\ MadeBy(k, ret[i]) /\ MadeBy(l, ret[j])

C3_Witness ==
    /\ Returned
    /\ Len(ret) >= 3
    /\ \E i \in 1..(Len(ret) - 1) : ret[i][3] = ret[i + 1][3]
    /\ \E i, j \in DOMAIN ret, k, l \in DOMAIN users_df :
            i < j /\ l < k /\ MadeBy(k, ret[i]) /\ MadeBy(l, ret[j])

\* C4: a user_id no record has ends in a "user not found" failure, not in the
\* IndexError of an unchecked index access.
C4_UserNotFoundIsReported ==
    (pc # "idle" /\ ~HasUser) => (pc = "raised" /\ exc = "UserNotFound")

\* C8: a call leaves the user collection as it was: the same records, in the
\* same order, with the same field values.
C8_InputsUnchanged == [][users_df' = users_df]_vars

C8_Witness ==
    /\ Returned
    /\ Len(ret) >= 1
    /\ Len(potential_matches) < Len(users_df)
    /\ \E k \in DOMAIN users_df : users_df[k].userId \in Disliked

\* C9: for an existing user_id the result has exactly one entry for every
\* eligible record and no other; the entry is (userName, userId, score) with
\* score = calculate_compatibility(current user, record); with no eligible
\* record the result is empty.
C9_ExactlyTheEligible ==
    (Returned /\ HasUser) =>
        /\ Len(ret) = Cardinality({k \in DOMAIN users_df : Eligible(k)})
        /\ \A k \in DOMAIN users_df :
                Eligible(k) =>
                    \E i \in DOMAIN ret :
                        ret[i] = <<users_df[k].userName, users_df[k].userId,
                                   calculate_compatibility(Current, users_df[k]).value>>

C9_Witness ==
    /\ Returned
    /\ Len(ret) = 2
    /\ ret[1][3] # ret[2][3]
    /\ \E k \in DOMAIN users_df :
            k # CurrentIndex /\ users_df[k].userType = Current.userType

\* C10: dislikes count one way only: a record of the other role that the
\* current user has not disliked appears in the result even when its own
\* dislikedUserIds names the current user.
C10_OneDirectionalDislike ==
    Returned =>
        \A k \in DOMAIN users_df :
            (Eligible(k) /\ user_id \in Elements(users_df[k].dislikedUserIds)) =>
                \E i \in DOMAIN ret : MadeBy(k, ret[i])

C10_Witness ==
    /\ Returned
    /\ \E k \in DOMAIN users_df :
            /\ Eligible(k)
            /\ user_id \in Elements(users_df[k].dislikedUserIds)
            /\ \E i \in DOMAIN ret : MadeBy(k, ret[i])

====
